---- MODULE Spec2Model ----
(***************************************************************************)
(* The JSONata price-badge engine of useNodePricing: rule compilation per  *)
(* node type, signature building, and the per-node cache / desiredSig /    *)
(* inflight state machine driven by getNodeDisplayPrice and by the         *)
(* settlement of the evaluation promises it starts.                        *)
(***************************************************************************)
EXTENDS Integers, Sequences, FiniteSets, Bags, TLC

\* Bounds of the model (not program constants).
MaxEvals == 3
MaxCompiles == 2
MaxEdits == 2
MaxPolls == 2
MaxCalls == 2
MaxDeps == 2

(***************************************************************************)
(* Raw widget values.  A value is a record with a JavaScript type tag; n   *)
(* carries a number, s a string, b a boolean (unused fields are zeroed so  *)
(* that all values are comparable).                                        *)
(***************************************************************************)
Undefined == [t |-> "undefined", n |-> 0, s |-> "", b |-> FALSE]
Null == [t |-> "null", n |-> 0, s |-> "", b |-> FALSE]
Num(k) == [t |-> "number", n |-> k, s |-> "", b |-> FALSE]
Str(x) == [t |-> "string", n |-> 0, s |-> x, b |-> FALSE]
Bool(x) == [t |-> "boolean", n |-> 0, s |-> "", b |-> x]
\* the numbers that are not finite, under tags of their own
NaN == [t |-> "NaN", n |-> 0, s |-> "", b |-> FALSE]
Infinity == [t |-> "Infinity", n |-> 0, s |-> "", b |-> FALSE]

Range(f) == {f[k] : k \in DOMAIN f}

\* Array.prototype.join
RECURSIVE Join(_, _)
Join(parts, sep) ==
  IF parts = <<>> THEN ""
  ELSE IF Len(parts) = 1 THEN parts[1]
  ELSE parts[1] \o sep \o Join(Tail(parts), sep)

\* String(v) of a primitive
StringOf(v) ==
  CASE v.t = "string" -> v.s
    [] v.t = "number" -> ToString(v.n)
    [] v.t = "boolean" -> (IF v.b THEN "true" ELSE "false")
    [] OTHER -> v.t

\* asFiniteNumber restricted to the modelled values: finite numbers pass
\* through, every other value (NaN, Infinity, booleans; strings here are
\* non-numeric or the decimal "1") yields null, encoded as has = FALSE.
asFiniteNumber(v) ==
  CASE v.t = "number" -> [has |-> TRUE, n |-> v.n]
    [] v.t = "string" /\ v.s = "1" -> [has |-> TRUE, n |-> 1]
    [] OTHER -> [has |-> FALSE, n |-> 0]

normalizeWidgetValue(raw) ==
  [raw |-> raw,
   n |-> asFiniteNumber(raw),
   b |-> IF raw.t = "boolean" THEN [has |-> TRUE, b |-> raw.b]
         ELSE IF raw.t = "string" /\ raw.s \in {"true", "false"}
              THEN [has |-> TRUE, b |-> raw.s = "true"]
              ELSE [has |-> FALSE, b |-> FALSE]]

\* a variant of widgetValue that reads the undeclared seed widget
widgetValue_otherWidget(node, name) ==
  IF "seed" \in DOMAIN node.widgets THEN node.widgets["seed"] ELSE Undefined

\* node.widgets?.find(x => x?.name === name)?.value : a node is a record
\* [widgets, inputs]; widgets maps the names of the widgets the node has to
\* their values, inputs maps the names of its input slots to "has a link".
widgetValue(node, name) ==
  IF name \in DOMAIN node.widgets THEN node.widgets[name] ELSE Undefined

slotConnected(node, name) ==
  IF name \in DOMAIN node.inputs THEN node.inputs[name] ELSE FALSE

buildJsonataContext(node, rule) ==
  [w |-> [name \in Range(rule.depends_on.widgets) |->
            normalizeWidgetValue(widgetValue(node, name))],
   i |-> [name \in Range(rule.depends_on.inputs) |->
            [connected |-> slotConnected(node, name)]]]

safeValueForSig(v) ==
  IF v.t \in {"null", "undefined"} THEN "" ELSE StringOf(v)

widgetPart(ctx, name) ==
  "w:" \o name \o "=" \o
    safeValueForSig(IF name \in DOMAIN ctx.w THEN ctx.w[name].raw ELSE Undefined)

inputPart(ctx, name) ==
  "i:" \o name \o "=" \o
    (IF name \in DOMAIN ctx.i /\ ctx.i[name].connected THEN "1" ELSE "0")

\* a variant of buildSignature that leaves the input parts out
buildSignature_noInputs(ctx, rule) ==
  Join([k \in 1..Len(rule.depends_on.widgets) |->
          widgetPart(ctx, rule.depends_on.widgets[k])],
       "|")

buildSignature(ctx, rule) ==
  Join([k \in 1..Len(rule.depends_on.widgets) |->
          widgetPart(ctx, rule.depends_on.widgets[k])]
       \o
       [k \in 1..Len(rule.depends_on.inputs) |->
          inputPart(ctx, rule.depends_on.inputs[k])],
       "|")

(***************************************************************************)
(* Result formatting.  CreditFormatOptions is a record of optional fields, *)
(* each [has, v]; a result is a record [isObject, type, text, usd,         *)
(* min_usd, max_usd, list, isArray, format, hasFormat] whose text and      *)
(* amounts are raw values; isObject is FALSE for a result that is no       *)
(* object; list and isArray are the usd property of a list_usd result.     *)
(* formatPricingResult returns the raw value the code returns.             *)
(***************************************************************************)
None == [has |-> FALSE, v |-> ""]
Some(x) == [has |-> TRUE, v |-> x]
NoFormat ==
  [suffix |-> None, note |-> None, approximate |-> [has |-> FALSE, v |-> FALSE],
   separator |-> None]

\* { ...defaults, ...format }
spread(defaults, format) ==
  [k \in DOMAIN defaults |-> IF format[k].has THEN format[k] ELSE defaults[k]]

\* formatCreditsFromUsd with maximumFractionDigits 0: the credits amount of
\* an integral usd amount, in decimal.
formatCreditsValue(usd) == ToString(usd)

makePrefix(approximate) == IF approximate.has /\ approximate.v THEN "~" ELSE ""

makeSuffix(suffix) == IF suffix.has THEN suffix.v ELSE "/Run"

appendNote(note) == IF note.has /\ note.v # "" THEN " " \o note.v ELSE ""

formatCreditsLabel(usd, fmt) ==
  makePrefix(fmt.approximate) \o formatCreditsValue(usd) \o " credits"
    \o makeSuffix(fmt.suffix) \o appendNote(fmt.note)

\* a variant of formatCreditsRangeLabel that always renders both bounds
formatCreditsRangeLabel_bothBounds(minUsd, maxUsd, fmt) ==
  LET min == formatCreditsValue(minUsd)
      max == formatCreditsValue(maxUsd)
  IN  makePrefix(fmt.approximate) \o min \o "-" \o max \o " credits"
        \o makeSuffix(fmt.suffix) \o appendNote(fmt.note)

formatCreditsRangeLabel(minUsd, maxUsd, fmt) ==
  LET min == formatCreditsValue(minUsd)
      max == formatCreditsValue(maxUsd)
      rangeValue == IF min = max THEN min ELSE min \o "-" \o max
  IN  makePrefix(fmt.approximate) \o rangeValue \o " credits"
        \o makeSuffix(fmt.suffix) \o appendNote(fmt.note)

\* a variant of formatCreditsListLabel that always joins with "/"
formatCreditsListLabel_slash(usdValues, fmt) ==
  LET parts == [k \in 1..Len(usdValues) |-> formatCreditsValue(usdValues[k])]
      value == Join(parts, "/")
  IN  makePrefix(fmt.approximate) \o value \o " credits"
        \o makeSuffix(fmt.suffix) \o appendNote(fmt.note)

formatCreditsListLabel(usdValues, fmt) ==
  LET parts == [k \in 1..Len(usdValues) |-> formatCreditsValue(usdValues[k])]
      value == Join(parts, IF fmt.separator.has THEN fmt.separator.v ELSE "/")
  IN  makePrefix(fmt.approximate) \o value \o " credits"
        \o makeSuffix(fmt.suffix) \o appendNote(fmt.note)

\* arr.map(asFiniteNumber).filter(x => x != null)
RECURSIVE finiteValues(_)
finiteValues(arr) ==
  IF arr = <<>> THEN <<>>
  ELSE LET x == asFiniteNumber(Head(arr))
       IN  (IF x.has THEN <<x.n>> ELSE <<>>) \o finiteValues(Tail(arr))

Result(type) ==
  [isObject |-> TRUE, type |-> type, text |-> Undefined, usd |-> Undefined,
   min_usd |-> Undefined, max_usd |-> Undefined, list |-> <<>>,
   isArray |-> FALSE, hasFormat |-> FALSE, format |-> NoFormat]

UsdResult(k) == [Result("usd") EXCEPT !.usd = Num(k)]
TextResult(v) == [Result("text") EXCEPT !.text = v]
RangeResult(a, b) == [Result("range_usd") EXCEPT !.min_usd = a, !.max_usd = b]
ListResult(arr) == [Result("list_usd") EXCEPT !.list = arr, !.isArray = TRUE]
NonObject == [Result("") EXCEPT !.isObject = FALSE]
WithFormat(r, format) == [r EXCEPT !.hasFormat = TRUE, !.format = format]

formatPricingResult(r, defaults) ==
  LET fmt == spread(defaults, IF r.hasFormat THEN r.format ELSE NoFormat)
  IN  CASE ~r.isObject -> Str("")
        [] r.type = "text" ->
             IF r.text.t \in {"null", "undefined"} THEN Str("") ELSE r.text
        [] r.type = "usd" ->
             LET usd == asFiniteNumber(r.usd)
             IN  IF ~usd.has THEN Str("")
                 ELSE Str(formatCreditsLabel(usd.n, fmt))
        [] r.type = "range_usd" ->
             LET minUsd == asFiniteNumber(r.min_usd)
                 maxUsd == asFiniteNumber(r.max_usd)
             IN  IF ~minUsd.has \/ ~maxUsd.has THEN Str("")
                 ELSE Str(formatCreditsRangeLabel(minUsd.n, maxUsd.n, fmt))
        [] r.type = "list_usd" ->
             IF ~r.isArray THEN Str("")
             ELSE LET usdValues == finiteValues(r.list)
                  IN  IF usdValues = <<>> THEN Str("")
                      ELSE Str(formatCreditsListLabel(usdValues, fmt))
        [] OTHER -> Str("")

(***************************************************************************)
(* Node types and their declarations (node.constructor.nodeData).          *)
(***************************************************************************)
TypeNames == {"TA", "TB", "TC"}

\* The expressions a declaration can carry: "quality" and "cost" are
\* well-formed, "quality =" is malformed.
Exprs == {"quality", "cost", "quality ="}

VARIABLE
  decl                 \* node type name -> the expression its declaration
                       \* carries at present (nodeData.price_badge.expr)

nodeData(T) ==
  IF T = "TA"
  THEN [name |-> "TA", api_node |-> TRUE, hasBadge |-> TRUE,
        price_badge |->
          [engine |-> "jsonata",
           depends_on |-> [widgets |-> <<"quality">>, inputs |-> <<"image">>],
           expr |-> decl[T]]]
  ELSE IF T = "TB"
  THEN [name |-> "TB", api_node |-> TRUE, hasBadge |-> TRUE,
        price_badge |->
          [engine |-> "jsonata",
           depends_on |-> [widgets |-> <<"quality">>, inputs |-> <<>>],
           expr |-> decl[T]]]
  ELSE [name |-> "TC", api_node |-> FALSE, hasBadge |-> TRUE,
        price_badge |->
          [engine |-> "jsonata",
           depends_on |-> [widgets |-> <<"quality">>, inputs |-> <<>>],
           expr |-> decl[T]]]

\* The node instances: n1 of type TA, n2 and n3 of type TB, n4 of type TC
\* (not an API node).  DeclaredExprs are the declarations Spec and SpecTypes
\* run under: TA's expression compiles, TB's is malformed.
DeclaredExprs == [T \in TypeNames |-> IF T = "TB" THEN "quality =" ELSE "quality"]

Nodes == {"n1", "n2", "n3", "n4"}
typeOf(n) ==
  CASE n = "n1" -> "TA" [] n \in {"n2", "n3"} -> "TB" [] OTHER -> "TC"

\* jsonata(expr) throws on a malformed expression
jsonataThrows(expr) == expr = "quality ="

priceBadgeToRule(priceBadge) ==
  [engine |-> priceBadge.engine,
   depends_on |-> priceBadge.depends_on,
   hasDefaults |-> FALSE,
   result_defaults |-> NoFormat,
   expr |-> priceBadge.expr]

\* _compiled is TRUE for an evaluable handle, FALSE for null (the failure
\* sentinel)
compileRule(rule) ==
  [rule |-> rule, _compiled |-> ~jsonataThrows(rule.expr)]

(***************************************************************************)
(* State.                                                                  *)
(***************************************************************************)
VARIABLES
  graph,               \* node -> [widgets, inputs]: the live node state
  compiledRulesCache,  \* Map: node type name -> compiled rule
  cache,               \* WeakMap: node -> [sig, label]
  desiredSig,          \* WeakMap: node -> sig
  inflight,            \* WeakMap: node -> [sig] (the entry's promise is the
                       \* newest task of that sig)
  tasks,               \* bag of the promise chains not yet run to their end:
                       \* [node, sig, phase], phase "evaluating" until the
                       \* evaluate promise settles, then "settled" until the
                       \* finally handler has run
  pricingTick,
  compileCalls,        \* history: jsonata(expr) invocations per type name
  evalCalls,           \* history: evaluate(ctx) invocations
  lastOp,              \* history: the operation that produced this state
  hist,                \* history of n1 since its declared dependencies were
                       \* last edited: edited (they have been edited),
                       \* calls (calls of the getter that returned a label
                       \* in this node state, counted up to 2), prevRet (the
                       \* label the latest such call returned), quiet (no
                       \* handler of a task has run since that call),
                       \* failed / failSig (a rejected task committed "" for
                       \* failSig and every call since has computed failSig),
                       \* edits (the edits SpecLive has made), owed
                       \* (pricingTick was bumped and the getter has not
                       \* been called since), shown (a call has returned
                       \* a label other than "")
  probe                \* the subject of a specification of one function
                       \* alone.  SpecSig: a node of the two-widget rule
                       \* SigRule, its state before (prev) and after (cur)
                       \* its latest mutation and the signatures computed
                       \* in them.  SpecFmt: a price badge, an evaluation
                       \* result, and the label committed for it.
                       \* SpecDeps: a node-definition store entry and the
                       \* names getRelevantWidgetNames returns for it

VARIABLE
  download             \* one useDownload instance: its variant (which of
                       \* the three implementations of the composable it
                       \* is), its refs isDownloading, downloadProgress,
                       \* error (TRUE for an Error, FALSE for null) and
                       \* downloadStatus.status, the triggerServerDownload
                       \* calls that passed the guard (calls: per call its
                       \* phase, whether its poll interval is set, its
                       \* poll requests awaiting a response and the ticks
                       \* its interval has fired), the download_model
                       \* requests sent, the browser downloads triggered,
                       \* the latest operation (last), and whether the
                       \* latest request has settled with no other request
                       \* in flight and no triggerServerDownload or
                       \* resetDownloadStatus call since (final)

vars ==
  <<graph, compiledRulesCache, cache, desiredSig, inflight, tasks, pricingTick,
    compileCalls, evalCalls, lastOp, hist, probe, decl, download>>

\* Values the environment writes to the widgets of n1
QualityVals == {Str("low"), Str("1"), Num(1)}
SeedVals == {Num(1), Num(2)}

\* What evaluate(ctx) can do: raise synchronously, or return a value or
\* promise, which later resolves with a result or rejects.
EngineCalls == {"returns", "throws"}
Results == {UsdResult(1), UsdResult(5)}

\* lastOp: the operation, its node, what it returned, whether it raised,
\* and whether it ran the compiler
Op(op, n, ret, threw) ==
  [op |-> op, node |-> n, ret |-> ret, threw |-> threw, compiled |-> FALSE]
ranCompiler(o) == [o EXCEPT !.compiled = compileCalls' # compileCalls]

\* Map.set / WeakMap.set
MapSet(m, k, v) == [x \in DOMAIN m \cup {k} |-> IF x = k THEN v ELSE m[x]]
\* WeakMap.delete
MapDelete(m, k) == [x \in DOMAIN m \ {k} |-> m[x]]

\* A rule that declares two widgets and one input, and the states of a node
\* of its type: values of different types with one rendering, and strings
\* that hold the separator.
SigRule ==
  priceBadgeToRule(
    [engine |-> "jsonata",
     depends_on |-> [widgets |-> <<"x", "y">>, inputs |-> <<"image">>],
     expr |-> "x"])
XVals == {Num(1), Str("1"), Null, Undefined, Str(""), Bool(TRUE), Str("true"),
          Str("a"), Str("a|w:y=b")}
YVals == {Str("b"), Str("c"), Str("b|w:y=c")}
SigNodes ==
  {[widgets |-> [x |-> a, y |-> b], inputs |-> [image |-> c]] :
     a \in XVals, b \in YVals, c \in BOOLEAN}

Probe(prev, cur, prevSig, curSig) ==
  [prev |-> prev, cur |-> cur, prevSig |-> prevSig, curSig |-> curSig]

(***************************************************************************)
(* useDownload.  The repository holds three implementations of the         *)
(* composable: "fallback" (src/composables/useDownload.ts, with the        *)
(* browser-download fallback and without downloadStatus), "status" (with   *)
(* downloadStatus and resetDownloadStatus, without browser download) and   *)
(* "polling" ("status" with progress polling).                             *)
(***************************************************************************)
Variants == {"fallback", "status", "polling"}

DlOp(op, call, outcome) == [op |-> op, call |-> call, outcome |-> outcome]

Idle(variant) ==
  [variant |-> variant, isDownloading |-> FALSE, downloadProgress |-> 0,
   error |-> FALSE, status |-> "idle", calls |-> <<>>, requests |-> 0,
   browserDownloads |-> 0, last |-> DlOp("init", 0, ""), final |-> FALSE]

InitCore ==
  /\ graph = [n \in Nodes |->
                IF n = "n1"
                THEN [widgets |-> [quality |-> Str("low"), seed |-> Num(1)],
                      inputs |-> [image |-> FALSE]]
                ELSE [widgets |-> <<>>, inputs |-> <<>>]]
  /\ compiledRulesCache = <<>>
  /\ cache = <<>>
  /\ desiredSig = <<>>
  /\ inflight = <<>>
  /\ tasks = EmptyBag
  /\ pricingTick = 0
  /\ compileCalls = [T \in TypeNames |-> 0]
  /\ evalCalls = 0
  /\ lastOp = Op("init", "", "", FALSE)
  /\ hist = [edited |-> FALSE, calls |-> 0, prevRet |-> "", quiet |-> TRUE,
             failed |-> FALSE, failSig |-> "", edits |-> 0, owed |-> FALSE,
             shown |-> FALSE]

Init ==
  /\ InitCore
  /\ download = Idle("fallback")
  /\ probe = Probe(<<>>, <<>>, "", "")
  /\ decl = DeclaredExprs

(***************************************************************************)
(* Rule lookup and compilation.                                            *)
(***************************************************************************)
\* a variant of getCompiledRuleForNodeType without the memo lookup
getCompiledRuleForNodeType_noMemo(nodeName, priceBadge) ==
  /\ compileCalls[nodeName] < MaxCompiles
  /\ compiledRulesCache' =
       MapSet(compiledRulesCache, nodeName,
              compileRule(priceBadgeToRule(priceBadge)))
  /\ compileCalls' = [compileCalls EXCEPT ![nodeName] = @ + 1]

\* a variant of getCompiledRuleForNodeType that records the compiled rule
\* under every type name
getCompiledRuleForNodeType_everyName(nodeName, priceBadge) ==
  IF nodeName \in DOMAIN compiledRulesCache
  THEN UNCHANGED <<compiledRulesCache, compileCalls>>
  ELSE /\ compileCalls[nodeName] < MaxCompiles
       /\ compiledRulesCache' =
            [T \in TypeNames |-> compileRule(priceBadgeToRule(priceBadge))]
       /\ compileCalls' = [compileCalls EXCEPT ![nodeName] = @ + 1]

\* a variant of getCompiledRuleForNodeType that compiles again when the
\* declaration carries another expression than the cached rule
getCompiledRuleForNodeType_byExpr(nodeName, priceBadge) ==
  IF /\ nodeName \in DOMAIN compiledRulesCache
     /\ compiledRulesCache[nodeName].rule.expr = priceBadge.expr
  THEN UNCHANGED <<compiledRulesCache, compileCalls>>
  ELSE /\ compileCalls[nodeName] < MaxCompiles
       /\ compiledRulesCache' =
            MapSet(compiledRulesCache, nodeName,
                   compileRule(priceBadgeToRule(priceBadge)))
       /\ compileCalls' = [compileCalls EXCEPT ![nodeName] = @ + 1]

getCompiledRuleForNodeType(nodeName, priceBadge) ==
  IF nodeName \in DOMAIN compiledRulesCache
  THEN UNCHANGED <<compiledRulesCache, compileCalls>>
  ELSE /\ compileCalls[nodeName] < MaxCompiles
       /\ compiledRulesCache' =
            MapSet(compiledRulesCache, nodeName,
                   compileRule(priceBadgeToRule(priceBadge)))
       /\ compileCalls' = [compileCalls EXCEPT ![nodeName] = @ + 1]

\* a variant of ruleApplies that does not ask for an API node
ruleApplies_anyBadge(n) == nodeData(typeOf(n)).hasBadge

\* getRuleForNode returns a rule for a node iff this holds
ruleApplies(n) ==
  nodeData(typeOf(n)).api_node /\ nodeData(typeOf(n)).hasBadge

getRuleForNode(n) ==
  IF ~ruleApplies(n)
  THEN UNCHANGED <<compiledRulesCache, compileCalls>>
  ELSE getCompiledRuleForNodeType(nodeData(typeOf(n)).name,
                                  nodeData(typeOf(n)).price_badge)

\* the rule getRuleForNode has returned (read after getRuleForNode)
returnedRule(n) == compiledRulesCache'[nodeData(typeOf(n)).name]

\* The signature getNodeDisplayPrice computes for node n under its rule
sigOf(node, rule) == buildSignature(buildJsonataContext(node, rule), rule)

(***************************************************************************)
(* scheduleEvaluation and the handlers of the promise chain it builds.     *)
(***************************************************************************)
\* const running = inflight.get(node); running && running.sig === sig
runningSameSig(n, sig) == n \in DOMAIN inflight /\ inflight[n].sig = sig

\* a variant of isDesired that holds of every signature
isDesired_always(n, sig) == TRUE

\* desiredSig.get(node) === sig
isDesired(n, sig) == n \in DOMAIN desiredSig /\ desiredSig[n] = sig

\* a variant of invokesEvaluate without the check of the running record
invokesEvaluate_noCoalesce(n, rule, sig) == rule._compiled

\* whether scheduleEvaluation gets as far as calling rule._compiled.evaluate
invokesEvaluate(n, rule, sig) == ~runningSameSig(n, sig) /\ rule._compiled

Task(n, sig, phase) == [node |-> n, sig |-> sig, phase |-> phase]

\* a variant of scheduleEvaluation that does not record the task it starts
scheduleEvaluation_noInflightSet(n, rule, sig, engine) ==
  /\ desiredSig' = MapSet(desiredSig, n, sig)
  /\ IF ~invokesEvaluate(n, rule, sig)
     THEN UNCHANGED <<inflight, tasks, evalCalls>>
     ELSE /\ evalCalls < MaxEvals
          /\ evalCalls' = evalCalls + 1
          /\ UNCHANGED inflight
          /\ IF engine = "throws"
             THEN UNCHANGED tasks
             ELSE tasks' = tasks (+) SetToBag({Task(n, sig, "evaluating")})

scheduleEvaluation(n, rule, sig, engine) ==
  /\ desiredSig' = MapSet(desiredSig, n, sig)
  /\ IF ~invokesEvaluate(n, rule, sig)
     THEN UNCHANGED <<inflight, tasks, evalCalls>>
     ELSE /\ evalCalls < MaxEvals
          /\ evalCalls' = evalCalls + 1
          /\ IF engine = "throws"
             THEN UNCHANGED <<inflight, tasks>>
             ELSE /\ tasks' = tasks (+) SetToBag({Task(n, sig, "evaluating")})
                  /\ inflight' = MapSet(inflight, n, [sig |-> sig])

\* rule.result_defaults ?? {}
resultDefaults(rule) ==
  IF rule.hasDefaults THEN rule.result_defaults ELSE NoFormat

\* a variant of thenHandler that discards every result
thenHandler_discards(t, res) == cache' = cache

\* .then((res) => ...): the evaluate promise of task t resolved with res
\* a variant of thenHandler that stores the label under the signature of
\* the node's present state
thenHandler_currentSig(t, res) ==
  LET rule == compiledRulesCache[nodeData(typeOf(t.node)).name].rule
      label == StringOf(formatPricingResult(res, resultDefaults(rule)))
  IN  cache' = IF ~isDesired(t.node, t.sig) THEN cache
               ELSE MapSet(cache, t.node,
                           [sig |-> sigOf(graph[t.node], rule), label |-> label])

thenHandler(t, res) ==
  LET rule == compiledRulesCache[nodeData(typeOf(t.node)).name].rule
      \* the label as the text of the badge (every result of Results
      \* formats to a string)
      label == StringOf(formatPricingResult(res, resultDefaults(rule)))
  IN  cache' = IF ~isDesired(t.node, t.sig) THEN cache
               ELSE MapSet(cache, t.node, [sig |-> t.sig, label |-> label])

\* a variant of catchHandler that stores the failure for every node that
\* has a cache entry
catchHandler_everyNode(t) ==
  cache' = IF isDesired(t.node, t.sig)
           THEN [n \in DOMAIN cache \cup {t.node} |->
                   [sig |-> t.sig, label |-> ""]]
           ELSE cache

\* .catch((err) => ...): the evaluate promise of task t rejected
catchHandler(t) ==
  cache' = IF isDesired(t.node, t.sig)
           THEN MapSet(cache, t.node, [sig |-> t.sig, label |-> ""])
           ELSE cache

\* a variant of finallyHandler that bumps pricingTick only for the task the
\* inflight record is about
finallyHandler_bumpIfRunning(t) ==
  /\ inflight' = IF runningSameSig(t.node, t.sig)
                 THEN MapDelete(inflight, t.node) ELSE inflight
  /\ pricingTick' = IF runningSameSig(t.node, t.sig)
                    THEN pricingTick + 1 ELSE pricingTick

\* .finally(() => ...)
finallyHandler(t) ==
  /\ inflight' = IF runningSameSig(t.node, t.sig)
                 THEN MapDelete(inflight, t.node) ELSE inflight
  /\ pricingTick' = pricingTick + 1

(***************************************************************************)
(* History of n1, for the properties that relate two calls.                *)
(***************************************************************************)
Min(a, b) == IF a < b THEN a ELSE b

\* the signature of node n in the node states g (its rule, once compiled, is
\* that of its declaration), and in the current node states
SigIn(g, n) == sigOf(g[n], priceBadgeToRule(nodeData(typeOf(n)).price_badge))
CurSig(n) == SigIn(graph, n)

HistAfterGet(n) ==
  IF n # "n1" THEN hist
  ELSE [hist EXCEPT
          !.calls = IF lastOp'.threw THEN @ ELSE Min(2, @ + 1),
          !.prevRet = IF lastOp'.threw THEN @ ELSE lastOp'.ret,
          !.quiet = IF lastOp'.threw THEN @ ELSE TRUE,
          !.failed = @ /\ hist.failSig = CurSig(n),
          !.owed = IF lastOp'.threw THEN @ ELSE FALSE,
          !.shown = @ \/ (~lastOp'.threw /\ lastOp'.ret # "")]

HistAfterEdit ==
  IF graph'["n1"].widgets.quality = graph["n1"].widgets.quality
  THEN hist
  ELSE [hist EXCEPT !.edited = TRUE, !.calls = 0, !.prevRet = "",
                    !.quiet = TRUE]

HistAfterHandler(t) ==
  IF t.node # "n1" THEN hist
  ELSE [hist EXCEPT
          !.quiet = FALSE,
          !.failed = IF lastOp'.op = "reject" /\ isDesired(t.node, t.sig)
                     THEN TRUE ELSE @,
          !.failSig = IF lastOp'.op = "reject" /\ isDesired(t.node, t.sig)
                      THEN t.sig ELSE @,
          !.owed = IF lastOp'.op = "finally" THEN TRUE ELSE @]

(***************************************************************************)
(* The public getters.                                                     *)
(***************************************************************************)
\* a variant of cacheHit that accepts an entry of any signature
cacheHit_anySig(n, sig) == n \in DOMAIN cache

\* const cached = cache.get(node); cached && cached.sig === sig
\* a variant of cacheHit that never finds the entry
cacheHit_never(n, sig) == FALSE

cacheHit(n, sig) == n \in DOMAIN cache /\ cache[n].sig = sig

\* a variant of lastKnownLabel that has no last-known label
lastKnownLabel_none(n) == ""

\* cached?.label ?? ''
lastKnownLabel(n) == IF n \in DOMAIN cache THEN cache[n].label ELSE ""

getNodeDisplayPrice(n, engine) ==
  /\ getRuleForNode(n)
  /\ IF \/ ~ruleApplies(n)
        \/ returnedRule(n).rule.engine # "jsonata"
        \/ ~returnedRule(n)._compiled
     THEN /\ UNCHANGED <<cache, desiredSig, inflight, tasks, evalCalls>>
          /\ lastOp' = ranCompiler(Op("get", n, "", FALSE))
     ELSE LET rule == returnedRule(n)
              sig == sigOf(graph[n], rule.rule)
          IN  IF cacheHit(n, sig)
              THEN /\ UNCHANGED <<cache, desiredSig, inflight, tasks, evalCalls>>
                   /\ lastOp' = ranCompiler(Op("get", n, cache[n].label, FALSE))
              ELSE /\ scheduleEvaluation(n, rule, sig, engine)
                   /\ UNCHANGED cache
                   /\ lastOp' =
                        ranCompiler(
                          Op("get", n, lastKnownLabel(n),
                             invokesEvaluate(n, rule, sig) /\ engine = "throws"))
  /\ hist' = HistAfterGet(n)
  /\ UNCHANGED <<graph, pricingTick, probe, decl, download>>

getNodePricingConfig(n) ==
  /\ getRuleForNode(n)
  /\ lastOp' = ranCompiler(Op("config", n, "", FALSE))
  /\ UNCHANGED <<graph, cache, desiredSig, inflight, tasks, pricingTick,
                 evalCalls, hist, probe, decl, download>>

(***************************************************************************)
(* Actions.  Spec drives the node n1, whose rule compiles: the rendering   *)
(* layer calls the getter, the environment edits the node's widgets (its   *)
(* input slot stays unconnected), the handlers of the evaluate promises    *)
(* run.  SpecTypes drives the getters on the nodes of every type with the  *)
(* node state left alone.                                                  *)
(***************************************************************************)
CoreNodes == {"n1"}

GetNodeDisplayPrice == \E n \in CoreNodes, engine \in EngineCalls :
  getNodeDisplayPrice(n, engine)

\* The environment sets a widget of n1 to a different value
SetWidget ==
  \E name \in {"quality", "seed"},
     v \in QualityVals \cup SeedVals :
    /\ v \in (IF name = "quality" THEN QualityVals ELSE SeedVals)
    /\ v # graph["n1"].widgets[name]
    /\ graph' = [graph EXCEPT !["n1"].widgets[name] = v]
    /\ lastOp' = Op("set", "n1", "", FALSE)
    /\ hist' = HistAfterEdit
    /\ UNCHANGED <<compiledRulesCache, cache, desiredSig, inflight, tasks,
                   pricingTick, compileCalls, evalCalls, probe, decl, download>>

\* the evaluate promise of the pending task t resolves with res
resolveWith(t, res) ==
  /\ t.phase = "evaluating"
  /\ thenHandler(t, res)
  /\ tasks' = (tasks (-) SetToBag({t}))
                (+) SetToBag({Task(t.node, t.sig, "settled")})
  /\ lastOp' = Op("resolve", t.node, "", FALSE)
  /\ hist' = HistAfterHandler(t)
  /\ UNCHANGED <<graph, compiledRulesCache, desiredSig, inflight, pricingTick,
                 compileCalls, evalCalls, probe, decl, download>>

Resolve == \E t \in BagToSet(tasks), res \in Results : resolveWith(t, res)

Reject == \E t \in BagToSet(tasks) :
  /\ t.phase = "evaluating"
  /\ catchHandler(t)
  /\ tasks' = (tasks (-) SetToBag({t}))
                (+) SetToBag({Task(t.node, t.sig, "settled")})
  /\ lastOp' = Op("reject", t.node, "", FALSE)
  /\ hist' = HistAfterHandler(t)
  /\ UNCHANGED <<graph, compiledRulesCache, desiredSig, inflight, pricingTick,
                 compileCalls, evalCalls, probe, decl, download>>

Finally == \E t \in BagToSet(tasks) :
  /\ t.phase = "settled"
  /\ finallyHandler(t)
  /\ tasks' = tasks (-) SetToBag({t})
  /\ lastOp' = Op("finally", t.node, "", FALSE)
  /\ hist' = HistAfterHandler(t)
  /\ UNCHANGED <<graph, compiledRulesCache, cache, desiredSig, compileCalls,
                 evalCalls, probe, decl, download>>

Next ==
  \/ GetNodeDisplayPrice
  \/ SetWidget
  \/ Resolve
  \/ Reject
  \/ Finally

Spec == Init /\ [][Next]_vars

GetAnyNodeDisplayPrice == \E n \in Nodes, engine \in EngineCalls :
  getNodeDisplayPrice(n, engine)

GetNodePricingConfig == \E n \in Nodes : getNodePricingConfig(n)

NextTypes ==
  \/ GetAnyNodeDisplayPrice
  \/ GetNodePricingConfig
  \/ Resolve
  \/ Reject
  \/ Finally

SpecTypes == Init /\ [][NextTypes]_vars

(***************************************************************************)
(* SpecSig exercises the signature function alone: a node of SigRule's     *)
(* type starts in any of its states and is mutated to any other, and the   *)
(* signature is computed in each state as getNodeDisplayPrice computes it. *)
(***************************************************************************)
InitSig ==
  /\ InitCore
  /\ download = Idle("fallback")
  /\ \E n \in SigNodes :
       probe = Probe(n, n, sigOf(n, SigRule), sigOf(n, SigRule))
  /\ decl = DeclaredExprs

Sign == \E n \in SigNodes :
  /\ n # probe.cur
  /\ probe' = Probe(probe.cur, n, probe.curSig, sigOf(n, SigRule))
  /\ UNCHANGED <<graph, compiledRulesCache, cache, desiredSig, inflight, tasks,
                 pricingTick, compileCalls, evalCalls, lastOp, hist, decl, download>>

NextSig == Sign

SpecSig == InitSig /\ [][NextSig]_vars

(***************************************************************************)
(* SpecDecl drives the getters on the nodes of every type while the node   *)
(* definitions are replaced: the expression TB's declaration carries at    *)
(* the start is any of Exprs, and TB's declaration can be replaced by one  *)
(* carrying another expression at any time.                                *)
(***************************************************************************)
InitDecl ==
  /\ InitCore
  /\ download = Idle("fallback")
  /\ probe = Probe(<<>>, <<>>, "", "")
  /\ \E e \in Exprs : decl = [DeclaredExprs EXCEPT !["TB"] = e]

\* the nodes SpecDecl drives: n1 of type TA, n2 and n3 of type TB
DeclNodes == {"n1", "n2", "n3"}

GetDeclNodeDisplayPrice == \E n \in DeclNodes, engine \in EngineCalls :
  getNodeDisplayPrice(n, engine)

GetDeclNodePricingConfig == \E n \in DeclNodes : getNodePricingConfig(n)

Redeclare == \E e \in Exprs :
  /\ e # decl["TB"]
  /\ decl' = [decl EXCEPT !["TB"] = e]
  /\ lastOp' = Op("redeclare", "", "", FALSE)
  /\ UNCHANGED <<graph, compiledRulesCache, cache, desiredSig, inflight, tasks,
                 pricingTick, compileCalls, evalCalls, hist, probe,
                 download>>

NextDecl ==
  \/ GetDeclNodeDisplayPrice
  \/ GetDeclNodePricingConfig
  \/ Redeclare
  \/ Resolve
  \/ Reject
  \/ Finally

SpecDecl == InitDecl /\ [][NextDecl]_vars

(***************************************************************************)
(* SpecLive is Spec for an engine whose evaluate never raises and an       *)
(* environment that edits the declared widget a bounded number of times,   *)
(* under the scheduling the rendering layer and the engine provide: after  *)
(* a bump of pricingTick the getter is called again, every evaluate        *)
(* promise settles, and every settled promise runs its finally handler.    *)
(***************************************************************************)
GetLive == getNodeDisplayPrice("n1", "returns")

\* the call the rendering layer makes because pricingTick was bumped
GetAfterBump == hist.owed /\ GetLive

\* an edit is made only while an evaluation is left in the bound MaxEvals,
\* so that the bound never keeps the getter from starting the evaluation of
\* the final state
EditLive == \E v \in QualityVals :
  /\ hist.edits < MaxEdits
  /\ evalCalls < MaxEvals
  /\ v # graph["n1"].widgets.quality
  /\ graph' = [graph EXCEPT !["n1"].widgets.quality = v]
  /\ lastOp' = Op("set", "n1", "", FALSE)
  /\ hist' = [HistAfterEdit EXCEPT !.edits = @ + 1]
  /\ UNCHANGED <<compiledRulesCache, cache, desiredSig, inflight, tasks,
                 pricingTick, compileCalls, evalCalls, probe, decl, download>>

NextLive ==
  \/ GetLive
  \/ EditLive
  \/ Resolve
  \/ Reject
  \/ Finally

SpecLive ==
  /\ Init
  /\ [][NextLive]_vars
  /\ WF_vars(GetAfterBump)
  /\ WF_vars(Resolve \/ Reject)
  /\ WF_vars(Finally)

(***************************************************************************)
(* SpecOk is Spec for an engine whose every evaluation succeeds: evaluate  *)
(* never raises and its promise never rejects.                             *)
(***************************************************************************)
NextOk ==
  \/ GetLive
  \/ SetWidget
  \/ Resolve
  \/ Finally

SpecOk == Init /\ [][NextOk]_vars

(***************************************************************************)
(* SpecFmt: the formatter alone.  A node type declares a price badge,      *)
(* with or without result_defaults; its rule is the one the rule lookup    *)
(* derives from the badge; an evaluation of the rule settles with any of   *)
(* FmtResults and the label is the one the then-handler computes (Format), *)
(* or the one the formatter gives for the result under any defaults        *)
(* (FormatWithDefaults).  probe.defaults are the defaults the formatter    *)
(* was called with, probe.committed tells the then-handler's label.        *)
(***************************************************************************)
Yes == [has |-> TRUE, v |-> TRUE]

FmtDefaults ==
  {NoFormat,
   [NoFormat EXCEPT !.suffix = Some("/Image")],
   [NoFormat EXCEPT !.note = Some("est"), !.approximate = Yes],
   [NoFormat EXCEPT !.separator = Some(",")]}

FmtFormats ==
  {[NoFormat EXCEPT !.suffix = Some("/Video")],
   [NoFormat EXCEPT !.separator = Some(" or "), !.note = Some("max")]}

FmtBadges ==
  {[engine |-> "jsonata",
    depends_on |-> [widgets |-> <<"quality">>, inputs |-> <<>>],
    expr |-> "cost",
    hasDefaults |-> d # NoFormat,
    result_defaults |-> d] : d \in FmtDefaults}

Amounts ==
  {Num(1), Num(2), Num(5), Str("1"), NaN, Infinity, Undefined, Str("x")}

Lists ==
  {<<>>, <<Num(2)>>, <<NaN>>, <<Num(5), Num(2)>>, <<Num(2), Undefined, Num(5)>>,
   <<Null, Str("x")>>, <<Num(5), Infinity, Num(5), Num(1)>>}

PlainResults ==
  {NonObject, Result("credits"), Result("usd"), Result("list_usd"),
   TextResult(Str("Free")), TextResult(Str("")), TextResult(Null),
   TextResult(Num(5)), TextResult(Bool(TRUE))}
    \cup {[Result("usd") EXCEPT !.usd = a] : a \in Amounts}
    \cup {RangeResult(a, b) : a, b \in Amounts}
    \cup {ListResult(arr) : arr \in Lists}

FmtResults ==
  PlainResults \cup {WithFormat(r, f) : r \in PlainResults \ {NonObject},
                                        f \in FmtFormats}

InitFmt ==
  /\ InitCore
  /\ download = Idle("fallback")
  /\ decl = DeclaredExprs
  /\ probe \in [badge : FmtBadges, res : FmtResults, defaults : {NoFormat},
                label : {Str("")}, formatted : {FALSE}, committed : {FALSE}]

\* const label = formatPricingResult(res, rule.result_defaults ?? {}), for
\* the rule made of the badge
Format ==
  LET defaults == resultDefaults(priceBadgeToRule(probe.badge))
  IN  /\ ~probe.formatted
      /\ probe' = [probe EXCEPT
                     !.defaults = defaults,
                     !.label = formatPricingResult(probe.res, defaults),
                     !.formatted = TRUE,
                     !.committed = TRUE]
      /\ UNCHANGED <<graph, compiledRulesCache, cache, desiredSig, inflight,
                     tasks, pricingTick, compileCalls, evalCalls, lastOp, hist,
                     decl, download>>

\* formatPricingResult(result, defaults)
FormatWithDefaults == \E defaults \in FmtDefaults :
  /\ ~probe.formatted
  /\ probe' = [probe EXCEPT
                 !.defaults = defaults,
                 !.label = formatPricingResult(probe.res, defaults),
                 !.formatted = TRUE]
  /\ UNCHANGED <<graph, compiledRulesCache, cache, desiredSig, inflight, tasks,
                 pricingTick, compileCalls, evalCalls, lastOp, hist, decl, download>>

NextFmt == Format \/ FormatWithDefaults

SpecFmt == InitFmt /\ [][NextFmt]_vars

(***************************************************************************)
(* SpecDeps: getRelevantWidgetNames alone.  probe.def is what the node     *)
(* definition store holds under the requested type name: nothing (known    *)
(* FALSE), a definition without price badge, a badge without depends_on,   *)
(* or a badge with declared widget and input names.                        *)
(***************************************************************************)
DepNames == {"a", "b", "c"}

SeqsUpTo(S, n) == UNION {[1..k -> S] : k \in 0..n}

NodeDefs ==
  {[known |-> FALSE, hasBadge |-> FALSE, hasDependsOn |-> FALSE,
    widgets |-> <<>>, inputs |-> <<>>],
   [known |-> TRUE, hasBadge |-> FALSE, hasDependsOn |-> FALSE,
    widgets |-> <<>>, inputs |-> <<>>],
   [known |-> TRUE, hasBadge |-> TRUE, hasDependsOn |-> FALSE,
    widgets |-> <<>>, inputs |-> <<>>]}
    \cup {[known |-> TRUE, hasBadge |-> TRUE, hasDependsOn |-> TRUE,
           widgets |-> w, inputs |-> i] :
             w \in SeqsUpTo(DepNames, MaxDeps), i \in SeqsUpTo(DepNames, MaxDeps)}

\* a variant of pushNew that pushes every name
pushNew_always(out, names) == out \o names

\* for (const n of names) if (!out.includes(n)) out.push(n)
RECURSIVE pushNew(_, _)
pushNew(out, names) ==
  IF names = <<>> THEN out
  ELSE pushNew(IF Head(names) \in Range(out) THEN out
               ELSE Append(out, Head(names)),
               Tail(names))

getRelevantWidgetNames(nodeDef) ==
  IF ~nodeDef.known THEN <<>>
  ELSE IF ~nodeDef.hasBadge THEN <<>>
  ELSE LET dependsOn == IF nodeDef.hasDependsOn
                        THEN [widgets |-> nodeDef.widgets,
                              inputs |-> nodeDef.inputs]
                        ELSE [widgets |-> <<>>, inputs |-> <<>>]
       IN  pushNew(<<>>, dependsOn.widgets \o dependsOn.inputs)

InitDeps ==
  /\ InitCore
  /\ download = Idle("fallback")
  /\ decl = DeclaredExprs
  /\ probe \in [def : NodeDefs, out : {<<>>}, returned : {FALSE}]

GetRelevantWidgetNames ==
  /\ ~probe.returned
  /\ probe' = [probe EXCEPT !.out = getRelevantWidgetNames(probe.def),
                            !.returned = TRUE]
  /\ UNCHANGED <<graph, compiledRulesCache, cache, desiredSig, inflight, tasks,
                 pricingTick, compileCalls, evalCalls, lastOp, hist, decl, download>>

NextDeps == GetRelevantWidgetNames

SpecDeps == InitDeps /\ [][NextDeps]_vars

(***************************************************************************)
(* SpecDl: one useDownload instance of any of the three variants, under    *)
(* every interleaving of triggerServerDownload and resetDownloadStatus     *)
(* calls, poll ticks, poll responses and settlements of download_model     *)
(* requests.                                                               *)
(***************************************************************************)
pricingVars ==
  <<graph, compiledRulesCache, cache, desiredSig, inflight, tasks, pricingTick,
    compileCalls, evalCalls, lastOp, hist, probe, decl>>

\* how a download_model request settles: fetch or response.json() raises,
\* the response is not ok, it reports success false, or it reports success
Outcomes == {"raises", "notOk", "successFalse", "success"}

\* the responses of download_progress: the request raises or is not ok
\* (ok FALSE), or it carries progressData with or without progress and
\* status ("" for none)
PollResponses ==
  {[ok |-> FALSE, hasProgress |-> FALSE, progress |-> 0, status |-> ""],
   [ok |-> TRUE, hasProgress |-> FALSE, progress |-> 0, status |-> ""]}
    \cup {[ok |-> TRUE, hasProgress |-> TRUE, progress |-> p, status |-> st] :
            p \in {50, 100}, st \in {"", "downloading", "completed", "error"}}

\* if (isDownloading.value) return
isBusy == download.isDownloading

TriggerServerDownload ==
  /\ IF isBusy
     THEN download' = [download EXCEPT !.last = DlOp("ignored", 0, ""),
                                      !.final = FALSE]
     ELSE /\ Len(download.calls) < MaxCalls
          /\ download' =
               [download EXCEPT
                  !.isDownloading = TRUE,
                  !.downloadProgress = 0,
                  !.error = FALSE,
                  !.status = IF download.variant = "fallback" THEN @
                             ELSE "downloading",
                  !.calls = Append(@, [phase |-> "fetching",
                                       pollInterval |-> download.variant = "polling",
                                       polls |-> 0, ticks |-> 0]),
                  !.requests = @ + 1,
                  !.final = FALSE,
                  !.last = DlOp("trigger", Len(download.calls) + 1, "")]
  /\ UNCHANGED pricingVars

\* the interval of call c fires and sends a download_progress request
PollTick == \E c \in 1..Len(download.calls) :
  /\ download.calls[c].pollInterval
  /\ download.calls[c].ticks < MaxPolls
  /\ download' = [download EXCEPT !.calls[c].polls = @ + 1,
                                  !.calls[c].ticks = @ + 1,
                                  !.last = DlOp("poll", c, "")]
  /\ UNCHANGED pricingVars

\* a download_progress request of call c gets its response
PollResponse == \E c \in 1..Len(download.calls), r \in PollResponses :
  /\ download.calls[c].polls > 0
  /\ download' =
       IF ~(r.ok /\ r.hasProgress)
       THEN [download EXCEPT !.calls[c].polls = @ - 1,
                             !.last = DlOp("pollResponse", c, "")]
       ELSE IF r.status = "completed"
       THEN [download EXCEPT !.calls[c].polls = @ - 1,
                             !.calls[c].pollInterval = FALSE,
                             !.downloadProgress = 100,
                             !.status = "completed",
                             !.last = DlOp("pollResponse", c, r.status)]
       ELSE [download EXCEPT !.calls[c].polls = @ - 1,
                             !.downloadProgress = r.progress,
                             !.status = IF r.status = "" THEN "downloading"
                                        ELSE r.status,
                             !.last = DlOp("pollResponse", c, r.status)]
  /\ UNCHANGED pricingVars

\* no download_model request other than that of call c is in flight
othersSettled(c) ==
  \A k \in 1..Len(download.calls) \ {c} : download.calls[k].phase = "settled"

\* the download_model request of call c settles: the rest of the try block,
\* the catch block and the finally block
Settle == \E c \in 1..Len(download.calls), outcome \in Outcomes :
  /\ download.calls[c].phase = "fetching"
  /\ download' =
       IF outcome = "success"
       THEN [download EXCEPT
               !.downloadProgress = 100,
               !.status = IF download.variant = "fallback" THEN @
                          ELSE "completed",
               !.calls[c].phase = "settled",
               !.calls[c].pollInterval = FALSE,
               !.isDownloading = FALSE,
               !.final = othersSettled(c),
               !.last = DlOp("settle", c, outcome)]
       ELSE [download EXCEPT
               !.error = TRUE,
               !.status = IF download.variant = "fallback" THEN @ ELSE "error",
               !.browserDownloads = IF download.variant = "fallback"
                                    THEN @ + 1 ELSE @,
               !.calls[c].phase = "settled",
               !.calls[c].pollInterval = FALSE,
               !.isDownloading = FALSE,
               !.final = othersSettled(c),
               !.last = DlOp("settle", c, outcome)]
  /\ UNCHANGED pricingVars

ResetDownloadStatus ==
  /\ download.variant # "fallback"
  /\ download' = [download EXCEPT !.status = "idle",
                                  !.error = FALSE,
                                  !.downloadProgress = 0,
                                  !.isDownloading = FALSE,
                                  !.final = FALSE,
                                  !.last = DlOp("reset", 0, "")]
  /\ UNCHANGED pricingVars

InitDl ==
  /\ InitCore
  /\ probe = Probe(<<>>, <<>>, "", "")
  /\ decl = DeclaredExprs
  /\ \E variant \in Variants : download = Idle(variant)

NextDl ==
  \/ TriggerServerDownload
  \/ PollTick
  \/ PollResponse
  \/ Settle
  \/ ResetDownloadStatus

SpecDl == InitDl /\ [][NextDl]_vars

(***************************************************************************)
(* SpecEval: Spec with an engine whose result is a function of the context *)
(* it is given.  A task carries its signature; its context was built from  *)
(* some state of n1 that has this signature.                               *)
(***************************************************************************)
NodeStates ==
  {[widgets |-> [quality |-> q, seed |-> s], inputs |-> [image |-> FALSE]] :
     q \in QualityVals, s \in SeedVals}

\* rule._compiled.evaluate(ctx) for TA's expression: the price of a quality
evaluate(ctx) ==
  IF ctx.w["quality"].raw = Str("low") THEN UsdResult(1) ELSE UsdResult(5)

\* the results an evaluation of task t can resolve with
evaluations(t) ==
  LET rule == compiledRulesCache[nodeData(typeOf(t.node)).name].rule
  IN  {evaluate(buildJsonataContext(st, rule)) :
         st \in {x \in NodeStates : sigOf(x, rule) = t.sig}}

ResolveEvaluated == \E t \in BagToSet(tasks) :
  \E res \in evaluations(t) : resolveWith(t, res)

NextEval ==
  \/ GetLive
  \/ SetWidget
  \/ ResolveEvaluated
  \/ Reject
  \/ Finally

SpecEval == Init /\ [][NextEval]_vars

(***************************************************************************)
(* Properties.                                                             *)
(***************************************************************************)
\* a step that is a call of getNodeDisplayPrice on n1
GetStep == lastOp'.op = "get" /\ lastOp'.node = "n1"

\* the evaluation task of n1's current signature, while pending
PendingTask == Task("n1", CurSig("n1"), "evaluating")

\* C1: staleness discard.  Once getNodeDisplayPrice has been called in the
\* node's current state (signature S2), a task of another signature S1 that
\* was pending at that call and then resolves with a result never writes
\* the cache: a resolve step that changes the cache entry writes an entry of
\* the current signature.
C1_StaleResultDiscarded ==
  [][(lastOp'.op = "resolve" /\ lastOp'.node = "n1" /\ hist.calls >= 1
      /\ cache' # cache)
     => cache'["n1"].sig = CurSig("n1")]_vars

\* C2: coalescing.  While a task of the current signature S is pending and
\* the inflight record of the node has signature S, a call of the getter
\* that computes S returns and starts no evaluation.
C2_Coalescing ==
  [][(GetStep /\ "n1" \in DOMAIN inflight /\ inflight["n1"].sig = CurSig("n1")
      /\ CopiesIn(PendingTask, tasks) >= 1)
     => (tasks' = tasks /\ evalCalls' = evalCalls /\ ~lastOp'.threw)]_vars

\* two calls were made in one node state while the only evaluation ever
\* started was pending and recorded
C2_Witness ==
  /\ lastOp.op = "get" /\ hist.calls = 2 /\ evalCalls = 1
  /\ "n1" \in DOMAIN inflight /\ inflight["n1"].sig = CurSig("n1")
  /\ CopiesIn(PendingTask, tasks) = 1

\* C3: at most one evaluation task per node and signature is pending
\* (started, its evaluate promise not yet settled).
C3_AtMostOnePendingPerSignature ==
  \A t \in BagToSet(tasks) : t.phase = "evaluating" => CopiesIn(t, tasks) <= 1

\* C4 as stated: with the declared dependencies unchanged since an earlier
\* call that returned, a call returns the string that call returned and
\* starts no task, whatever handlers have run in between.
C4_StableAcrossSettlements ==
  [][(GetStep /\ hist.calls >= 1 /\ ~lastOp'.threw)
     => (lastOp'.ret = hist.prevRet /\ tasks' = tasks)]_vars

\* C4: stability.  With the declared dependencies unchanged since an
\* earlier call that returned, and no then, catch or finally handler of a
\* task of the node run since that call, a call returns the identical
\* string and starts no evaluation.
C4_StableWhileQuiet ==
  [][(GetStep /\ hist.calls >= 1 /\ hist.quiet)
     => (~lastOp'.threw /\ lastOp'.ret = hist.prevRet /\ tasks' = tasks
         /\ evalCalls' = evalCalls)]_vars

\* the second of two calls with no handler in between has returned the
\* label of the first
C4_Witness ==
  /\ lastOp.op = "get" /\ lastOp.node = "n1" /\ ~lastOp.threw
  /\ hist.calls = 2 /\ hist.quiet /\ lastOp.ret = hist.prevRet
  /\ lastOp.ret # ""

\* C5 as stated: after an edit of the declared widget, the first call that
\* returns starts one task of the new state's signature and no later call
\* in that state starts another.
C5_ExactlyOneTaskPerMutation ==
  [][(GetStep /\ hist.edited /\ ~lastOp'.threw)
     => IF hist.calls = 0
        THEN tasks' = tasks (+) SetToBag({PendingTask})
        ELSE tasks' = tasks]_vars

\* C5: change detection.  After an edit of the declared widget, a call
\* starts one task of the state's signature exactly when that signature is
\* neither the cache entry's nor the inflight record's and evaluate
\* returns; in every other case it starts none.
C5_TaskStartedIffNewSignature ==
  [][(GetStep /\ hist.edited)
     => IF \/ ("n1" \in DOMAIN cache /\ cache["n1"].sig = CurSig("n1"))
           \/ ("n1" \in DOMAIN inflight /\ inflight["n1"].sig = CurSig("n1"))
        THEN tasks' = tasks /\ evalCalls' = evalCalls /\ ~lastOp'.threw
        ELSE \/ lastOp'.threw /\ tasks' = tasks
             \/ /\ ~lastOp'.threw
                /\ tasks' = tasks (+) SetToBag({PendingTask})]_vars

\* the first call after an edit has been made, over a cache entry of an
\* older signature, and the task of the new signature is pending
C5_Witness ==
  /\ lastOp.op = "get" /\ ~lastOp.threw /\ hist.edited /\ hist.calls = 1
  /\ "n1" \in DOMAIN cache /\ cache["n1"].sig # CurSig("n1")
  /\ "n1" \in DOMAIN inflight /\ inflight["n1"].sig = CurSig("n1")
  /\ CopiesIn(PendingTask, tasks) = 1

\* the states of n1 that agree with its current state on the declared
\* widget and input: any seed, any state of an undeclared input slot
UndeclaredVariants ==
  {[widgets |-> [quality |-> graph["n1"].widgets.quality, seed |-> v],
    inputs |-> [image |-> graph["n1"].inputs.image, mask |-> m]] :
     v \in SeedVals \cup {Undefined}, m \in BOOLEAN}

\* C6: the signature is a function of the declared dependencies only.
\* At every call of the getter, every node state that agrees with the
\* current one on the declared widget and input has the signature the call
\* computes; an edit of the undeclared widget leaves the signature alone,
\* keeps a cache hit a hit and starts no evaluation.
C6_SignatureOfDeclaredOnly ==
  [][/\ GetStep =>
          \A alt \in UndeclaredVariants :
            sigOf(alt, priceBadgeToRule(nodeData("TA").price_badge))
              = CurSig("n1")
     /\ (lastOp'.op = "set"
         /\ graph'["n1"].widgets.quality = graph["n1"].widgets.quality)
        => /\ graph'["n1"].widgets.seed # graph["n1"].widgets.seed
           /\ SigIn(graph', "n1") = CurSig("n1")
           /\ tasks' = tasks /\ evalCalls' = evalCalls
           /\ ("n1" \in DOMAIN cache /\ cache["n1"].sig = CurSig("n1"))
                => ("n1" \in DOMAIN cache'
                    /\ cache'["n1"].sig = SigIn(graph', "n1"))
    ]_vars

\* after the only evaluation, the seed has been edited and a call has
\* returned the cached label
C6_Witness ==
  /\ lastOp.op = "get" /\ lastOp.ret # "" /\ evalCalls = 1 /\ ~hist.edited
  /\ graph["n1"].widgets.seed = Num(2)
  /\ "n1" \in DOMAIN cache /\ cache["n1"].sig = CurSig("n1")

\* the strings of XVals and YVals that hold the separator "|"
hasSeparator(s) == s \in {"a|w:y=b", "b|w:y=c"}

\* C7 as stated: two states that differ in a declared widget value or in
\* the declared input's connected state have different signatures.
C7_SignatureInjective ==
  probe.prev # probe.cur => probe.prevSig # probe.curSig

\* C7: two states that differ in the declared input's connected state or
\* in the rendering (safeValueForSig) of a declared widget, no rendering
\* holding the separator, have different signatures; two states with equal
\* renderings and equal connected state have the same signature.
C7_DistinctRenderingsDistinctSignatures ==
  LET a == probe.prev
      b == probe.cur
      rend(n, w) == safeValueForSig(n.widgets[w])
      clean == \A w \in {"x", "y"} :
                 ~hasSeparator(rend(a, w)) /\ ~hasSeparator(rend(b, w))
      differ == \/ \E w \in {"x", "y"} : rend(a, w) # rend(b, w)
                \/ a.inputs.image # b.inputs.image
  IN  /\ (clean /\ differ) => probe.prevSig # probe.curSig
      /\ ~differ => probe.prevSig = probe.curSig

\* x has been mutated from "1" to "a", y and the input left alone, and the
\* signature has changed
C7_Witness ==
  /\ probe.prev # probe.cur
  /\ probe.prev.widgets.x = Str("1") /\ probe.cur.widgets.x = Str("a")
  /\ probe.prev.widgets.y = probe.cur.widgets.y
  /\ probe.prev.inputs = probe.cur.inputs
  /\ probe.prevSig # probe.curSig

\* C8: no error escapes getNodeDisplayPrice: every call returns a string.
C8_GetterNeverThrows == ~(lastOp.op = "get" /\ lastOp.threw)

\* C9: once a rejected task has committed {S, ""}, every call that computes
\* S (until a call computes another signature) returns "" and starts no
\* task.
C9_FailureCachedPerSignature ==
  [][(GetStep /\ hist.failed /\ hist.failSig = CurSig("n1"))
     => (~lastOp'.threw /\ lastOp'.ret = "" /\ tasks' = tasks
         /\ evalCalls' = evalCalls)]_vars

\* C10: a compile failure is permanent per node type.  The expression of a
\* type is compiled at most once; once it has been compiled and is
\* malformed the type holds the failure sentinel; every call of the getter
\* on a node of such a type returns "" and raises nothing.
C10_CompileFailurePermanent ==
  /\ \A T \in TypeNames : compileCalls[T] <= 1
  /\ \A T \in TypeNames :
       (compileCalls[T] >= 1 /\ jsonataThrows(nodeData(T).price_badge.expr))
         => (T \in DOMAIN compiledRulesCache /\ ~compiledRulesCache[T]._compiled)
  /\ (lastOp.op = "get" /\ jsonataThrows(nodeData(typeOf(lastOp.node)).price_badge.expr)
      /\ nodeData(typeOf(lastOp.node)).api_node)
       => (lastOp.ret = "" /\ ~lastOp.threw)

\* the getter has been called on n3 after the one compilation of its type,
\* run by an earlier operation, failed
C10_Witness ==
  /\ lastOp.op = "get" /\ lastOp.node = "n3" /\ lastOp.ret = ""
  /\ ~lastOp.compiled /\ compileCalls["TB"] = 1
  /\ "TB" \in DOMAIN compiledRulesCache /\ ~compiledRulesCache["TB"]._compiled

\* Map.get as an optional value, and the tasks of one node
entry(m, k) == IF k \in DOMAIN m THEN <<m[k]>> ELSE <<>>
tasksOf(b, n) == [t \in {x \in BagToSet(b) : x.node = n} |-> b[t]]

\* C11: compile isolation of type TA (node n1) from type TB (nodes n2, n3),
\* whose expression compiles in some behaviours and fails in others.  No
\* operation on a node of TB and no replacement of TB's declaration changes
\* TA's compiled rule, n1's cache entry, desiredSig or inflight record, or
\* n1's tasks; and what a getter call on n1 does to TA's compiled rule and
\* returns is a function of TA's declaration and n1's own entries.
C11_CompileIsolation ==
  [][/\ (lastOp'.node \in {"n2", "n3"} \/ lastOp'.op = "redeclare")
        => /\ entry(compiledRulesCache', "TA") = entry(compiledRulesCache, "TA")
           /\ entry(cache', "n1") = entry(cache, "n1")
           /\ entry(desiredSig', "n1") = entry(desiredSig, "n1")
           /\ entry(inflight', "n1") = entry(inflight, "n1")
           /\ tasksOf(tasks', "n1") = tasksOf(tasks, "n1")
     /\ (lastOp'.op \in {"get", "config"} /\ lastOp'.node = "n1")
        => /\ compiledRulesCache'["TA"] =
                (IF "TA" \in DOMAIN compiledRulesCache
                 THEN compiledRulesCache["TA"]
                 ELSE compileRule(priceBadgeToRule(nodeData("TA").price_badge)))
           /\ lastOp'.op = "get"
                => lastOp'.ret =
                     (IF "n1" \in DOMAIN cache THEN cache["n1"].label ELSE "")
    ]_vars

\* TB's compilation has failed and a call on n1 has returned its label
C11_Witness ==
  /\ "TB" \in DOMAIN compiledRulesCache /\ ~compiledRulesCache["TB"]._compiled
  /\ lastOp.op = "get" /\ lastOp.node = "n1" /\ lastOp.ret # ""
  /\ "n1" \in DOMAIN cache /\ cache["n1"].sig = CurSig("n1")

\* the cache entry of n1 is that of its current signature and no task of
\* n1 is left
Settled ==
  /\ "n1" \in DOMAIN cache /\ cache["n1"].sig = CurSig("n1")
  /\ tasks = EmptyBag

\* C12 as stated: when the getter has been called and is called again after
\* each bump, then once the declared widget has stopped changing the cache
\* entry eventually is that of the final signature and stays so.
C12_EventuallySettled == (<>(evalCalls >= 1)) => <>[]Settled

\* C12: eventual label.  After a call of the getter in the node's state,
\* either the declared widget is edited again or the cache entry becomes
\* that of the state's signature with no task left; in such a state every
\* call returns the cached label, starts nothing and leaves the cache
\* alone.
C12_EventualLabel ==
  /\ (hist.calls >= 1) ~> (Settled \/ hist.calls = 0)
  /\ [][(Settled /\ GetStep)
        => (lastOp'.ret = cache["n1"].label /\ cache' = cache
            /\ tasks' = tasks /\ desiredSig' = desiredSig)]_vars

\* after the last edit the label of the final state is cached and a call
\* has returned it
C12_Witness ==
  /\ hist.edits = MaxEdits /\ Settled
  /\ lastOp.op = "get" /\ lastOp.ret = cache["n1"].label /\ lastOp.ret # ""

\* C13: no flicker.  A call that misses the cache returns the label of the
\* cache entry the node has, and "" only when it has none; and, every
\* evaluation succeeding with a label other than "", once a call has
\* returned a label other than "" no call returns "".
C13_NoFlicker ==
  [][GetStep =>
       /\ ~lastOp'.threw
       /\ ~("n1" \in DOMAIN cache /\ cache["n1"].sig = CurSig("n1"))
            => lastOp'.ret =
                 (IF "n1" \in DOMAIN cache THEN cache["n1"].label ELSE "")
       /\ hist.shown => lastOp'.ret # ""]_vars

\* a call has missed the cache over an entry of another signature and has
\* returned that entry's label
C13_Witness ==
  /\ lastOp.op = "get" /\ hist.shown /\ lastOp.ret # ""
  /\ "n1" \in DOMAIN cache /\ cache["n1"].sig # CurSig("n1")
  /\ lastOp.ret = cache["n1"].label
  /\ "n1" \in DOMAIN inflight /\ inflight["n1"].sig = CurSig("n1")

\* C14: the invalidation counter.  pricingTick never decreases; the step
\* in which a task runs to its end (its finally handler, after success,
\* failure or a superseded result) adds exactly one and takes that task
\* away; no other step changes it; so it equals the number of tasks
\* started less the number not yet run to their end.
C14_TickCountsSettlements ==
  [][/\ pricingTick' >= pricingTick
     /\ IF lastOp'.op = "finally"
        THEN /\ pricingTick' = pricingTick + 1
             /\ BagCardinality(tasks') = BagCardinality(tasks) - 1
        ELSE pricingTick' = pricingTick
     /\ pricingTick' + BagCardinality(tasks') = evalCalls']_vars

\* a superseded task has run to its end, its bump counted, while the
\* inflight record of a newer task stays
C14_Witness ==
  /\ lastOp.op = "finally" /\ pricingTick = 1 /\ evalCalls = 2
  /\ "n1" \in DOMAIN inflight /\ inflight["n1"].sig = CurSig("n1")
  /\ BagCardinality(tasks) = 1

\* the format options a label is to use: each option from the result's own
\* format, else from the declared result_defaults, else the global default
chosenFormat(badge, res) ==
  [k \in DOMAIN NoFormat |->
     IF res.hasFormat /\ res.format[k].has THEN res.format[k]
     ELSE IF badge.hasDefaults /\ badge.result_defaults[k].has
          THEN badge.result_defaults[k]
          ELSE NoFormat[k]]

\* the label of a priced result res under the format options fmt
pricedLabel(res, fmt) ==
  CASE res.type = "usd" ->
         formatCreditsLabel(asFiniteNumber(res.usd).n, fmt)
    [] res.type = "range_usd" ->
         formatCreditsRangeLabel(asFiniteNumber(res.min_usd).n,
                                 asFiniteNumber(res.max_usd).n, fmt)
    [] OTHER -> formatCreditsListLabel(finiteValues(res.list), fmt)

isPriced(res, label) ==
  res.isObject /\ res.type \in {"usd", "range_usd", "list_usd"} /\ label # Str("")

\* C15: the label committed for an evaluation result takes each of suffix,
\* note, approximate and separator from the result's own format when it
\* gives one, otherwise from the result_defaults of the node type's
\* declaration, otherwise from the global defaults.
C15_FormatPrecedence ==
  (probe.committed /\ isPriced(probe.res, probe.label)) =>
    probe.label = Str(pricedLabel(probe.res,
                                  chosenFormat(probe.badge, probe.res)))

\* what the code does instead: the declared result_defaults are never used
DeclaredDefaultsIgnored ==
  (probe.committed /\ isPriced(probe.res, probe.label)) =>
    probe.label = Str(pricedLabel(probe.res,
                                  IF probe.res.hasFormat THEN probe.res.format
                                  ELSE NoFormat))

\* C16: compilation is memoized per node-type name.  Over every sequence of
\* getter calls, settlements and replacements of a declaration, the
\* compiler has run at most once per type name, a name has a compiled rule
\* exactly when the compiler has run for it, and a compiled rule once
\* stored is the one every later request gets: it never changes and the
\* compiler does not run again, whatever the declaration then says.
C16_CompiledOncePerName ==
  [][\A T \in TypeNames :
       /\ compileCalls'[T] <= 1
       /\ (T \in DOMAIN compiledRulesCache') <=> (compileCalls'[T] = 1)
       /\ T \in DOMAIN compiledRulesCache
            => /\ T \in DOMAIN compiledRulesCache'
               /\ compiledRulesCache'[T] = compiledRulesCache[T]
               /\ compileCalls'[T] = compileCalls[T]
    ]_vars

\* a request for TB after its declaration was replaced has reused the rule
\* compiled from the first expression
C16_Witness ==
  /\ lastOp.op \in {"get", "config"} /\ lastOp.node \in {"n2", "n3"}
  /\ ~lastOp.compiled
  /\ "TB" \in DOMAIN compiledRulesCache
  /\ compiledRulesCache["TB"].rule.expr # decl["TB"]

\* the label a call of getNodeDisplayPrice on node n returns, given the
\* compiled rules crc and the cache c: "" without an evaluable rule, else
\* the label of n's cache entry (on a hit and on a miss alike), "" if none
labelOfCall(crc, c, n) ==
  LET T == nodeData(typeOf(n)).name
      rule == IF T \in DOMAIN crc THEN crc[T]
              ELSE compileRule(priceBadgeToRule(nodeData(typeOf(n)).price_badge))
  IN  IF ~ruleApplies(n) \/ rule.rule.engine # "jsonata" \/ ~rule._compiled
      THEN ""
      ELSE IF n \in DOMAIN c THEN c[n].label ELSE ""

\* C17: node instances are independent.  A getNodeDisplayPrice call on a
\* node A and each handler of a task of A (then, catch, finally) leave the
\* cache entry, the desiredSig and the inflight record of every other node
\* B as they were, and leave unchanged the label a call on B returns.
C17_NodesIndependent ==
  [][lastOp'.op \in {"get", "resolve", "reject", "finally"}
       => \A B \in Nodes \ {lastOp'.node} :
            /\ entry(cache', B) = entry(cache, B)
            /\ entry(desiredSig', B) = entry(desiredSig, B)
            /\ entry(inflight', B) = entry(inflight, B)
            /\ labelOfCall(compiledRulesCache', cache', B)
                 = labelOfCall(compiledRulesCache, cache, B)
    ]_vars

\* a task of n2 has failed while n1 has a label cached and n3, of n2's own
\* type, has a task in flight
C17_Witness ==
  /\ lastOp.op = "reject" /\ lastOp.node = "n2"
  /\ "n2" \in DOMAIN cache /\ cache["n2"].label = ""
  /\ "n1" \in DOMAIN cache /\ cache["n1"].label # ""
  /\ "n3" \in DOMAIN inflight

\* an amount is finite when it is a finite number or a string that parses
\* to one; finiteAmount is that number
isFiniteAmount(v) == v.t = "number" \/ v = Str("1")
finiteAmount(v) == IF v.t = "number" THEN v.n ELSE 1

\* the labels that carry the amount text body, under any decoration
decorated(body) ==
  {Str(pre \o body \o " credits" \o suffix \o note) :
     pre \in {"", "~"}, suffix \in {"/Run", "/Image", "/Video"},
     note \in {"", " est", " max"}}

\* C18: range formatting.  A range_usd result yields "" if either bound is
\* not finite; otherwise the amount text of its label is "<min>-<max>" of
\* the two formatted credit values, except that it is the single value
\* when the formatted min and max are textually identical.
C18_RangeFormatting ==
  (probe.formatted /\ probe.res.isObject /\ probe.res.type = "range_usd") =>
    LET lo == probe.res.min_usd
        hi == probe.res.max_usd
    IN  IF ~isFiniteAmount(lo) \/ ~isFiniteAmount(hi)
        THEN probe.label = Str("")
        ELSE LET min == formatCreditsValue(finiteAmount(lo))
                 max == formatCreditsValue(finiteAmount(hi))
             IN  probe.label \in
                   decorated(IF min = max THEN min ELSE min \o "-" \o max)

\* a range whose bounds format to the same text has been rendered as the
\* single value
C18_Witness ==
  /\ probe.formatted
  /\ probe.res = RangeResult(Str("1"), Num(1))
  /\ probe.label = Str("1 credits/Run")

\* the formatted finite entries of arr, in their order, joined by sep
RECURSIVE joinedFinite(_, _)
joinedFinite(arr, sep) ==
  IF arr = <<>> THEN ""
  ELSE LET rest == joinedFinite(Tail(arr), sep)
           keep == {k \in 1..Len(arr) : isFiniteAmount(arr[k])}
       IN  IF ~isFiniteAmount(Head(arr)) THEN rest
           ELSE formatCreditsValue(finiteAmount(Head(arr)))
                  \o (IF keep \ {1} = {} THEN "" ELSE sep \o rest)

\* C19: list formatting.  A list_usd result (with an array of amounts)
\* drops every non-finite entry, yields "" when no entry remains, and
\* otherwise the amount text of its label is the formatted remaining values
\* in their original order, joined by the configured separator: that of
\* the result's format, else that of the defaults the formatter is given,
\* else "/".
C19_ListFormatting ==
  (probe.formatted /\ probe.res.isObject /\ probe.res.type = "list_usd"
     /\ probe.res.isArray) =>
    LET arr == probe.res.list
        separator == IF probe.res.hasFormat /\ probe.res.format.separator.has
                     THEN probe.res.format.separator.v
                     ELSE IF probe.defaults.separator.has
                          THEN probe.defaults.separator.v
                          ELSE "/"
    IN  IF \A k \in 1..Len(arr) : ~isFiniteAmount(arr[k])
        THEN probe.label = Str("")
        ELSE probe.label \in decorated(joinedFinite(arr, separator))

\* a list with a non-finite entry in the middle has been joined with the
\* separator of the defaults
C19_Witness ==
  /\ probe.formatted
  /\ probe.res = ListResult(<<Num(2), Undefined, Num(5)>>)
  /\ probe.defaults.separator = Some(",")
  /\ probe.label = Str("2,5 credits/Run")

\* a result the formatter has no label for: no object, an unknown type tag,
\* a priced result whose amount is no finite number
isMalformed(res) ==
  \/ ~res.isObject
  \/ res.type \notin {"text", "usd", "range_usd", "list_usd"}
  \/ res.type = "usd" /\ ~isFiniteAmount(res.usd)
  \/ res.type = "range_usd"
       /\ (~isFiniteAmount(res.min_usd) \/ ~isFiniteAmount(res.max_usd))
  \/ res.type = "list_usd"
       /\ (~res.isArray \/ \A k \in 1..Len(res.list) : ~isFiniteAmount(res.list[k]))

\* C20: formatter no-throw.  For every result value the formatter returns
\* a string, and it returns the empty string for a non-object, an object
\* with an unknown type tag, and a usd, range_usd or list_usd result whose
\* amount is not a number.
C20_FormatterReturnsString ==
  probe.formatted =>
    /\ probe.label.t = "string"
    /\ isMalformed(probe.res) => probe.label = Str("")

\* the part of C20 the code keeps: the malformed results give ""
MalformedGivesEmpty ==
  (probe.formatted /\ isMalformed(probe.res)) => probe.label = Str("")

\* the position of the first occurrence of name x in the sequence s
firstIndex(s, x) == CHOOSE k \in 1..Len(s) : s[k] = x /\ \A j \in 1..(k - 1) : s[j] # x

\* C21: getRelevantWidgetNames returns the declared widget names followed
\* by the declared input names, every name exactly once and at the position
\* of its first occurrence; it returns the empty list when the node type is
\* unknown or declares no pricing rule.
C21_DependencyNames ==
  probe.returned =>
    LET declared == probe.def.widgets \o probe.def.inputs
        out == probe.out
    IN  IF ~probe.def.known \/ ~probe.def.hasBadge
        THEN out = <<>>
        ELSE /\ Range(out) = Range(declared)
             /\ \A i, j \in 1..Len(out) : i # j => out[i] # out[j]
             /\ \A i, j \in 1..Len(out) :
                  i < j => firstIndex(declared, out[i]) < firstIndex(declared, out[j])

\* a name declared as a widget and as an input, after another widget, is
\* returned once, at its widget position
C21_Witness ==
  /\ probe.returned
  /\ probe.def.widgets = <<"b", "a">> /\ probe.def.inputs = <<"a", "c">>
  /\ probe.out = <<"b", "a", "c">>

\* a step in which a download_model request settles as a failure
FailedSettle == download'.last.op = "settle" /\ download'.last.outcome # "success"

\* C22: download fallback.  Whenever a server download started by
\* triggerServerDownload fails (the request raises, the response is not ok,
\* or it reports success false), the browser download is triggered exactly
\* once, the error is recorded, and isDownloading is false afterwards.
C22_DownloadFallback ==
  [][FailedSettle =>
       /\ download'.browserDownloads = download.browserDownloads + 1
       /\ download'.error
       /\ ~download'.isDownloading
    ]_vars

\* what holds of every variant: the error is recorded and isDownloading is
\* false; the browser download is triggered, once, by the fallback variant
\* alone
FallbackOfVariant ==
  [][FailedSettle =>
       /\ download'.browserDownloads =
            download.browserDownloads
              + (IF download.variant = "fallback" THEN 1 ELSE 0)
       /\ download'.error
       /\ ~download'.isDownloading
    ]_vars

\* C23: desiredSig tracks the most recent request.  After every call of
\* getNodeDisplayPrice that computes a signature for n1 (its rule applies
\* and is compiled), desiredSig of n1 is the signature of that call, also
\* when the call was answered from the cache; so a task of an older
\* signature that settles after the call leaves the cache entry alone.
C23_DesiredSigTracksRequest ==
  [][/\ GetStep
        => ("n1" \in DOMAIN desiredSig' /\ desiredSig'["n1"] = CurSig("n1"))
     /\ (lastOp'.op \in {"resolve", "reject"} /\ lastOp'.node = "n1"
          /\ hist.calls >= 1 /\ "n1" \in DOMAIN desiredSig
          /\ \E t \in BagToSet(tasks) \ BagToSet(tasks') :
                t.node = "n1" /\ t.sig # CurSig("n1"))
        => cache' = cache
    ]_vars

\* C24: the cache-hit path has no effect.  When n1 has a cache entry whose
\* signature is the current signature, getNodeDisplayPrice returns that
\* entry's label and leaves the cache, desiredSig, the inflight record,
\* pricingTick and the pending tasks unchanged.
C24_CacheHitNoEffect ==
  [][(GetStep /\ "n1" \in DOMAIN cache /\ cache["n1"].sig = CurSig("n1"))
       => /\ ~lastOp'.threw
          /\ lastOp'.ret = cache["n1"].label
          /\ cache' = cache
          /\ desiredSig' = desiredSig
          /\ inflight' = inflight
          /\ pricingTick' = pricingTick
          /\ tasks' = tasks
          /\ evalCalls' = evalCalls
    ]_vars

\* a call was answered from the cache while a task of another signature
\* was pending and recorded
C24_Witness ==
  /\ lastOp.op = "get" /\ lastOp.node = "n1" /\ lastOp.ret # ""
  /\ "n1" \in DOMAIN cache /\ cache["n1"].sig = CurSig("n1")
  /\ lastOp.ret = cache["n1"].label
  /\ "n1" \in DOMAIN inflight /\ inflight["n1"].sig # CurSig("n1")
  /\ \E t \in BagToSet(tasks) : t.phase = "evaluating" /\ t.sig # CurSig("n1")

\* C25: the no-rule path has no effect.  For a node that is not an API
\* node or has no price badge, or whose rule carries the compile-failure
\* sentinel, getNodeDisplayPrice returns "" and leaves the node's cache
\* entry, desiredSig and inflight record and pricingTick unchanged, and
\* starts no evaluation task.
C25_NoRuleNoEffect ==
  [][\A n \in Nodes :
       (/\ lastOp'.op = "get" /\ lastOp'.node = n
        /\ LET T == typeOf(n)
           IN  \/ ~nodeData(T).api_node
               \/ ~nodeData(T).hasBadge
               \/ (T \in DOMAIN compiledRulesCache'
                     /\ ~compiledRulesCache'[T]._compiled))
       => /\ lastOp'.ret = "" /\ ~lastOp'.threw
          /\ entry(cache', n) = entry(cache, n)
          /\ entry(desiredSig', n) = entry(desiredSig, n)
          /\ entry(inflight', n) = entry(inflight, n)
          /\ pricingTick' = pricingTick
          /\ tasks' = tasks
          /\ evalCalls' = evalCalls
    ]_vars

\* the getter has been called on n4, which is no API node, while n1 has a
\* label cached
C25_Witness ==
  /\ lastOp.op = "get" /\ lastOp.node = "n4" /\ lastOp.ret = ""
  /\ "n1" \in DOMAIN cache /\ cache["n1"].label # ""
  /\ "n4" \notin DOMAIN desiredSig
  /\ "TB" \in DOMAIN compiledRulesCache /\ ~compiledRulesCache["TB"]._compiled

\* the tasks whose then or catch handler runs in the step
settling ==
  {t \in BagToSet(tasks) :
     t.phase = "evaluating" /\ CopiesIn(t, tasks') < CopiesIn(t, tasks)}

\* the labels a resolved evaluation can commit
ResultLabels ==
  {StringOf(formatPricingResult(res, NoFormat)) : res \in Results}

\* C26: commit rule.  The settlement of a task of signature S writes the
\* node's cache entry (with signature S, and the formatted result or "" on
\* failure) if and only if desiredSig equals S at settlement time; a
\* settlement of another signature, success or failure, leaves the cache
\* unchanged; and no operation other than a settlement writes or removes a
\* cache entry.
C26_CommitRule ==
  [][IF lastOp'.op \in {"resolve", "reject"}
     THEN settling # {} /\ \A t \in settling :
            IF t.node \in DOMAIN desiredSig /\ desiredSig[t.node] = t.sig
            THEN /\ DOMAIN cache' = DOMAIN cache \cup {t.node}
                 /\ cache'[t.node].sig = t.sig
                 /\ IF lastOp'.op = "reject" THEN cache'[t.node].label = ""
                    ELSE cache'[t.node].label \in ResultLabels
                 /\ \A n \in DOMAIN cache \ {t.node} : cache'[n] = cache[n]
            ELSE cache' = cache
     ELSE cache' = cache
    ]_vars

\* a task has resolved whose signature was no longer that of desiredSig,
\* and the cache entry of the signature shown before is still there
C26_Witness ==
  /\ lastOp.op = "resolve" /\ lastOp.node = "n1"
  /\ "n1" \in DOMAIN cache /\ cache["n1"].label # ""
  /\ \E t \in BagToSet(tasks) :
       /\ t.phase = "settled"
       /\ t.sig # desiredSig["n1"]
       /\ t.sig # cache["n1"].sig
  /\ pricingTick = 1

\* an inflight record of node n refers to a task of n that has not run its
\* finally handler
RecordHasTask(n) ==
  n \in DOMAIN inflight
    => \E t \in BagToSet(tasks) : t.node = n /\ t.sig = inflight[n].sig

\* a pending task of n for the signature of desiredSig has its record
DesiredTaskHasRecord(n) ==
  \A t \in BagToSet(tasks) :
    (t.node = n /\ t.phase = "evaluating" /\ isDesired(n, t.sig))
      => runningSameSig(n, t.sig)

\* C27: the inflight record is never dangling and never cleared by another
\* task.  A node has an inflight record of signature S only if a task of S
\* for that node is still unsettled, and a pending task for the signature
\* of desiredSig always still has its record.
C27_InflightRecordLive ==
  \A n \in Nodes : RecordHasTask(n) /\ DesiredTaskHasRecord(n)

\* the half of C27 that holds: no record without a task of its signature
InflightNeverDangling == \A n \in Nodes : RecordHasTask(n)

\* the labels of the evaluations whose context was built from a state of
\* n1 with signature sig, for TA's rule
labelsOfSig(sig) ==
  LET rule == priceBadgeToRule(nodeData("TA").price_badge)
  IN  {StringOf(formatPricingResult(evaluate(buildJsonataContext(st, rule)),
                                    NoFormat)) :
         st \in {x \in NodeStates : sigOf(x, rule) = sig}}

\* C28: cache entries are self-consistent.  In every reachable state the
\* cache entry {sig, label} of n1 holds the formatted outcome of an
\* evaluation whose context was built from a node state with signature sig,
\* or "" when that evaluation failed; it never pairs a signature with the
\* label computed for another signature.
C28_CacheEntryConsistent ==
  "n1" \in DOMAIN cache =>
    (cache["n1"].label = "" \/ cache["n1"].label \in labelsOfSig(cache["n1"].sig))

\* the cache holds the label of a signature that is neither the node's
\* present one nor the one of desiredSig
C28_Witness ==
  /\ "n1" \in DOMAIN cache /\ cache["n1"].label = "1 credits/Run"
  /\ cache["n1"].sig # CurSig("n1")
  /\ cache["n1"].sig # desiredSig["n1"]

\* the download_model requests that have not settled
requestsInFlight ==
  Cardinality({c \in 1..Len(download.calls) : download.calls[c].phase = "fetching"})

\* C29: at most one server download is in flight per useDownload instance.
\* Under every interleaving of triggerServerDownload and
\* resetDownloadStatus calls, a triggerServerDownload call issued while an
\* earlier request has not settled sends no second request, and
\* isDownloading is true exactly while a request is in flight.
C29_OneDownloadInFlight ==
  /\ requestsInFlight <= 1
  /\ download.isDownloading <=> (requestsInFlight >= 1)

\* what holds as long as resetDownloadStatus is not called while a request
\* is in flight
OneDownloadWithoutReset ==
  [][(download'.last.op = "reset" => requestsInFlight = 0)
       => (C29_OneDownloadInFlight => C29_OneDownloadInFlight')]_vars

\* C30: the download status is final after settlement.  Once a
\* triggerServerDownload call with progress polling has settled,
\* downloadStatus.status is 'completed' or 'error', and neither
\* downloadStatus nor downloadProgress changes again until the next
\* triggerServerDownload or resetDownloadStatus call, also when a poll
\* response issued before the settlement arrives afterwards.
C30_StatusFinalAfterSettle ==
  [][download.variant = "polling"
       => /\ (download'.last.op = "settle" /\ download'.final)
               => download'.status \in {"completed", "error"}
          /\ (download.final /\ download'.final)
               => /\ download'.status = download.status
                  /\ download'.downloadProgress = download.downloadProgress
    ]_vars

====
